---- MODULE Spec2Model ----
(***************************************************************************)
(* punch_chat: the per-room WebSocket connection registry                  *)
(* (app/websocket/manager.py), the websocket_chat session handler          *)
(* (app/main.py) and the moderation/persistence step                       *)
(* ChatService.save_message (app/services/chat_service.py).                *)
(*                                                                         *)
(* Every connection runs one websocket_chat coroutine.  A step of the      *)
(* model is the code between two suspension points (await) of a coroutine, *)
(* so the interleavings of the model are those of the event loop.          *)
(***************************************************************************)
EXTENDS Integers, Sequences, FiniteSets, TLC

\* Python's None: "None" where a string is expected, 0 where an id or a close
\* code is expected, the empty tuple where an object is expected
None == "None"
NoObject == << >>

(***************************************************************************)
(* Bounds.                                                                 *)
(***************************************************************************)
\* non-empty inbound frames handed to save_message, over all sessions
MaxFrames == 2

\* rows of chat_rooms, the three of the initial state included
MaxRooms == 4

\* add_member_to_group is called while room_memberships has fewer rows
MaxMemberships == 9

\* the WebSocket objects; each is owned by one websocket_chat call
Conns == {"ws1", "ws2"}

\* the request handlers that run store operations with awaits in them
Procs == {1, 2}

\* room_id query parameters tried by clients (4 is no row of chat_rooms)
RoomParams == 1..4

\* user ids a token's subject may name (4 is no row of users)
Subjects == 1..4

TokenTypes == {"access", "refresh", "password_reset"}

\* a token is what jwt.decode sees: valid = signature and expiry are good
Tokens == [sub : Subjects, type : TokenTypes, valid : BOOLEAN]

\* values of data.get("content"): missing, empty, a text
Contents == {None, "", "hi"}

\* an inbound frame; room_id and sender_id are fields a client may add
InboundFrames ==
    [content : Contents, room_id : {0}, sender_id : {0}]
        \cup [content : Contents, room_id : {2}, sender_id : {2}]

\* what the classifier pipeline does: it answers a label and a score (in
\* hundredths), or it raises
ClassifierResults ==
    [raises : {FALSE}, label : {"Toxic", "non-toxic"}, score : {49, 50}]
        \cup {[raises |-> TRUE, label |-> "", score |-> 0]}

(***************************************************************************)
(* Program constants.                                                      *)
(***************************************************************************)
\* moderator.py: TOXICITY_THRESHOLD = 0.5, in hundredths
TOXICITY_THRESHOLD == 50

\* main.py: websocket.close(code=...)
CLOSE_AUTH_FAILED == 4401
CLOSE_USER_REJECTED == 4403
CLOSE_NOT_MEMBER == 4404
\* websocket.close() without a code (starlette's default)
CLOSE_DEFAULT == 1000

VARIABLES
    users,               \* table users: id (index) -> [username, is_active, is_admin]
    rooms,               \* table chat_rooms: id (index) -> [room_type, is_active]
    memberships,         \* table room_memberships: rows [room_id, user_id]
    messages,            \* table messages: rows [id, room_id, sender_id, content, created_at]
    row_gate,            \* per row of messages: did the gate block its content? (history)
    active_connections,  \* ConnectionManager.active_connections: room_id -> set of WebSocket
    inbox,               \* per WebSocket: the frames send_json delivered to the client
    pc,                  \* per session: the await the coroutine is suspended at
    room_id,             \* websocket_chat locals
    payload,
    user_id,
    message_in,
    msg_obj,
    block_reason,
    bcast,               \* locals of the session's running manager.broadcast call
    close_code,          \* code given to websocket.close, None when close was not called
    exit,                \* which path ended the session (history)
    calls,               \* how often the session called manager.connect / manager.disconnect
    join_facts,          \* what the store held when the session's join checks ran (history)
    gate,                \* what the gate did for the frame the session is handling (history)
    nframes,             \* non-empty frames handed to save_message so far
    req,                 \* per request handler: the store request it is suspended in
    last_call,           \* the store request that returned last: arguments and outcome
    last_op              \* per (room, WebSocket): the last registry call that returned (history)

db == <<users, rooms, memberships>>
locals == <<room_id, payload, user_id, message_in, msg_obj, block_reason>>
history == <<close_code, exit, calls, join_facts, gate>>
requests == <<req, last_call>>
vars == <<users, rooms, memberships, messages, row_gate, active_connections, inbox, pc,
          room_id, payload, user_id, message_in, msg_obj, block_reason, bcast,
          close_code, exit, calls, join_facts, gate, nframes, req, last_call, last_op>>

(***************************************************************************)
(* security.decode_jwt_token: the payload, or None on JWTError.            *)
(***************************************************************************)
decode_jwt_token(token) ==
    IF token.valid THEN [sub |-> token.sub, type |-> token.type] ELSE NoObject

\* a lookup that forgets the join with room_memberships
get_room_for_user_any_member(rid, uid) ==
    IF rid \in DOMAIN rooms /\ rooms[rid].is_active THEN rid ELSE 0

(***************************************************************************)
(* ChatService.get_room_for_user: select ChatRoom join RoomMembership      *)
(* where ChatRoom.id = room_id, RoomMembership.user_id = user_id and       *)
(* ChatRoom.is_active; the id of the first row, or None.                   *)
(***************************************************************************)
get_room_for_user(rid, uid) ==
    IF /\ rid \in DOMAIN rooms
       /\ rooms[rid].is_active
       /\ \E i \in DOMAIN memberships :
             memberships[i].room_id = rid /\ memberships[i].user_id = uid
    THEN rid
    ELSE 0

\* a connect on a registry whose rooms all share one set object
connect_shared_set(ac, rid, ws) ==
    [r \in DOMAIN ac \cup {rid} |-> IF r \in DOMAIN ac THEN ac[r] \cup {ws} ELSE {ws}]

\* a connect that starts the room's set afresh
connect_replaces_set(ac, rid, ws) ==
    [r \in DOMAIN ac \cup {rid} |-> IF r = rid THEN {ws} ELSE ac[r]]

(***************************************************************************)
(* ConnectionManager.connect: create the room's set if absent, add.        *)
(***************************************************************************)
connect(ac, rid, ws) ==
    IF rid \in DOMAIN ac
    THEN [ac EXCEPT ![rid] = @ \cup {ws}]
    ELSE [r \in DOMAIN ac \cup {rid} |-> IF r = rid THEN {ws} ELSE ac[r]]

(***************************************************************************)
(* ConnectionManager.disconnect: discard, and delete the room's entry when *)
(* its set became empty.                                                   *)
(***************************************************************************)
disconnect(ac, rid, ws) ==
    IF rid \in DOMAIN ac
    THEN IF ac[rid] \ {ws} = {}
         THEN [r \in DOMAIN ac \ {rid} |-> ac[r]]
         ELSE [ac EXCEPT ![rid] = @ \ {ws}]
    ELSE ac

(***************************************************************************)
(* ConnectionManager.broadcast holds `connections`, a reference to the set *)
(* object of the room.  disconnect's `del` drops that object from the      *)
(* registry; a later connect builds a new one.  A broadcast whose object   *)
(* was dropped (stale) prunes a set nobody else can see.                   *)
(***************************************************************************)
drop_references(bc, ac, ac2, rid) ==
    [c \in DOMAIN bc |->
        IF rid \in DOMAIN ac /\ rid \notin DOMAIN ac2
           /\ bc[c].room = rid /\ ~bc[c].done
        THEN [bc[c] EXCEPT !.stale = TRUE]
        ELSE bc[c]]

\* a send that lets the frame overtake the frames sent before it
send_json_overtaking(frames, message) == <<message>> \o frames

\* ws.send_json(message) returned: the client of ws has the frame after those
\* sent to it before
send_json(frames, message) == Append(frames, message)

\* a broadcast that skips one of the room's connections
broadcast_targets_skip_one(connections) ==
    connections \ {CHOOSE w \in connections : TRUE}

\* for ws in list(connections): the connections a broadcast sends to
broadcast_targets(connections) == connections

\* a broadcast that discards the dead connections from every room's set
prune_dead_every_room(ac, b) == [r \in DOMAIN ac |-> ac[r] \ b.dead]

\* a broadcast that collects the dead connections and forgets to discard them
prune_dead_forgotten(ac, b) == ac

\* for ws in dead: connections.discard(ws), on the set object the call holds
prune_dead(ac, b) ==
    IF b.stale THEN ac ELSE [ac EXCEPT ![b.room] = @ \ b.dead]

\* a request handler that is not in a store request; no call has returned yet
Idle == [op |-> "idle"]

NoCall == [op |-> "none"]

\* the rooms the registry is called with directly: by connect and disconnect
\* alone, and together with broadcast
RegistryRooms == {1, 2, 3}

MgrRooms == {1, 2}

NoBroadcast ==
    [room |-> 0, message |-> NoObject, snap |-> {}, todo |-> {}, dead |-> {},
     stale |-> FALSE, done |-> TRUE]

(***************************************************************************)
(* moderator.check_message_allowed_minilm on the classifier's answer.      *)
(***************************************************************************)
strip(text) == IF text = " " THEN "" ELSE text

lower(label) == IF label = "Toxic" THEN "toxic" ELSE label

\* f"Blocked as toxic (score={score:.2f})"
reason_text(score) ==
    IF score = 50 THEN "Blocked as toxic (score=0.50)"
    ELSE IF score = 49 THEN "Blocked as toxic (score=0.49)"
    ELSE "Blocked as toxic"

check_message_allowed_minilm(text, result) ==
    IF strip(text) = ""
    THEN <<TRUE, None>>
    ELSE IF lower(result.label) = "toxic" /\ result.score >= TOXICITY_THRESHOLD
         THEN <<FALSE, reason_text(result.score)>>
         ELSE <<TRUE, None>>

\* the classifier is called, and raises
gate_raises(text, result) == strip(text) # "" /\ result.raises

\* a save_message that refuses the message when the gate raised
moderation_fail_closed(text, result) ==
    IF gate_raises(text, result)
    THEN <<FALSE, "moderation unavailable">>
    ELSE check_message_allowed_minilm(text, result)

(***************************************************************************)
(* save_message, lines 233-239: the gate's answer, or allowed when the     *)
(* gate raised.                                                            *)
(***************************************************************************)
moderation(text, result) ==
    IF gate_raises(text, result)
    THEN <<TRUE, None>>
    ELSE check_message_allowed_minilm(text, result)

\* schemas.MessageCreate(room_id=..., content=...)
MessageCreate(rid, text) == [room_id |-> rid, content |-> text]

\* a handler that lets the inbound frame name the room
message_in_of_frame_room(data, rid) ==
    MessageCreate(IF data.room_id # 0 THEN data.room_id ELSE rid, data.content)

\* websocket_chat line 116: the message is built from the session's room
message_in_of(data, rid) == MessageCreate(rid, data.content)

\* save_message, lines 246-250, with the id and created_at the store assigns
new_message(m_in, sender_id, id, now) ==
    [id |-> id, room_id |-> m_in.room_id, sender_id |-> sender_id,
     content |-> m_in.content, created_at |-> now]

\* a save_message that writes the row whatever the gate said
persists_always(allowed) == TRUE

\* save_message, line 241: is the row written?
persists(allowed) == allowed

\* datetime.isoformat
isoformat(t) == <<"iso", t>>

\* websocket_chat lines 138-144
broadcast_frame(m) ==
    [id |-> m.id, room_id |-> m.room_id, sender_id |-> m.sender_id,
     content |-> m.content, created_at |-> isoformat(m.created_at)]

\* an error frame that leaves the reason out
error_response_no_reason(reason) ==
    [type |-> "error", message |-> <<"Your message was blocked: ", "">>]

\* websocket_chat lines 126-129
error_response(reason) ==
    [type |-> "error", message |-> <<"Your message was blocked: ", reason>>]

\* a test for None only, where the code tests truthiness
truthy_not_none(x) == x # None

\* Python truthiness of `content` and `block_reason`
truthy(x) == x \notin {None, ""}

\* the store's clock never runs backwards
last_created_at == IF messages = <<>> THEN 0 ELSE messages[Len(messages)].created_at

(***************************************************************************)
(* The initial state: an empty registry, no session started, and a store   *)
(* with two active users (one an admin) and an inactive one, a group room, *)
(* an active direct room and a deactivated room.                           *)
(***************************************************************************)
Init ==
    /\ users = << [username |-> "u1", is_active |-> TRUE, is_admin |-> TRUE],
                  [username |-> "u2", is_active |-> TRUE, is_admin |-> FALSE],
                  [username |-> "u3", is_active |-> FALSE, is_admin |-> FALSE] >>
    /\ rooms = << [room_type |-> "group", is_active |-> TRUE],
                  [room_type |-> "direct", is_active |-> TRUE],
                  [room_type |-> "group", is_active |-> FALSE] >>
    /\ memberships = << [room_id |-> 1, user_id |-> 1], [room_id |-> 1, user_id |-> 2],
                        [room_id |-> 1, user_id |-> 3], [room_id |-> 2, user_id |-> 2],
                        [room_id |-> 2, user_id |-> 3], [room_id |-> 3, user_id |-> 1],
                        [room_id |-> 3, user_id |-> 2] >>
    /\ messages = <<>>
    /\ row_gate = <<>>
    /\ active_connections = <<>>
    /\ inbox = [c \in Conns |-> <<>>]
    /\ pc = [c \in Conns |-> "start"]
    /\ room_id = [c \in Conns |-> 0]
    /\ payload = [c \in Conns |-> NoObject]
    /\ user_id = [c \in Conns |-> 0]
    /\ message_in = [c \in Conns |-> NoObject]
    /\ msg_obj = [c \in Conns |-> NoObject]
    /\ block_reason = [c \in Conns |-> None]
    /\ bcast = [c \in Conns |-> NoBroadcast]
    /\ close_code = [c \in Conns |-> 0]
    /\ exit = [c \in Conns |-> None]
    /\ calls = [c \in Conns |-> [connect |-> 0, disconnect |-> 0]]
    /\ join_facts = [c \in Conns |-> NoObject]
    /\ gate = [c \in Conns |-> None]
    /\ nframes = 0
    /\ req = [p \in Procs |-> Idle]
    /\ last_call = NoCall
    /\ last_op = [k \in RegistryRooms \X Conns |-> "none"]

\* the coroutine returned: its locals are gone
Return(c) ==
    /\ pc' = [pc EXCEPT ![c] = "closed"]
    /\ room_id' = [room_id EXCEPT ![c] = 0]
    /\ payload' = [payload EXCEPT ![c] = NoObject]
    /\ user_id' = [user_id EXCEPT ![c] = 0]
    /\ message_in' = [message_in EXCEPT ![c] = NoObject]
    /\ msg_obj' = [msg_obj EXCEPT ![c] = NoObject]
    /\ block_reason' = [block_reason EXCEPT ![c] = None]

(***************************************************************************)
(* websocket_chat lines 85-104, the join checks in the order of the code:  *)
(* which one refuses the attempt (None: none), and the close code of each. *)
(***************************************************************************)
token_rejected(p) == p = NoObject \/ p.type # "access"

user_rejected(uid) == uid \notin DOMAIN users \/ ~users[uid].is_active

rejection(token, rid) ==
    LET p == decode_jwt_token(token) IN
    IF p = NoObject THEN "invalid_credential"
    ELSE IF token_rejected(p) THEN "wrong_kind"
    ELSE IF user_rejected(p.sub) THEN "bad_user"
    ELSE IF get_room_for_user(rid, p.sub) = 0 THEN "not_member"
    ELSE None

\* a handler that closes an inactive or unknown user with the token's code
rejection_close_code_user_as_auth(why) ==
    IF why \in {"invalid_credential", "wrong_kind", "bad_user"} THEN CLOSE_AUTH_FAILED
    ELSE CLOSE_NOT_MEMBER

rejection_close_code(why) ==
    IF why \in {"invalid_credential", "wrong_kind"} THEN CLOSE_AUTH_FAILED
    ELSE IF why = "bad_user" THEN CLOSE_USER_REJECTED
    ELSE CLOSE_NOT_MEMBER

\* websocket_chat lines 86-104: await websocket.close(code=...); return
Reject(c, why) ==
    /\ Return(c)
    /\ close_code' = [close_code EXCEPT ![c] = rejection_close_code(why)]
    /\ exit' = [exit EXCEPT ![c] = why]
    /\ UNCHANGED <<db, requests, last_op, messages, row_gate, active_connections, inbox, bcast, calls,
                   join_facts, gate, nframes>>

(***************************************************************************)
(* websocket_chat lines 147-153: both except clauses call                  *)
(* manager.disconnect(room_id, websocket); `except Exception` then closes  *)
(* the socket.                                                             *)
(***************************************************************************)
\* a handler that ends the session on an Exception without closing the socket
exit_code_no_close(why) == 0

\* `except Exception` (fault; store_fault when it was db.commit that raised)
\* closes the socket without a code, `except WebSocketDisconnect` does not close
exit_code(why) == IF why \in {"fault", "store_fault"} THEN CLOSE_DEFAULT ELSE 0

\* an except clause that does not call manager.disconnect
except_disconnect_skipped(st, rid, ws) == st

\* the manager.disconnect call of an except clause, on the registry and on
\* the session's count of its calls
except_disconnect(st, rid, ws) ==
    [ac |-> disconnect(st.ac, rid, ws),
     calls |-> [st.calls EXCEPT !.disconnect = @ + 1]]

Except(c, why) ==
    /\ Return(c)
    /\ LET st == except_disconnect([ac |-> active_connections, calls |-> calls[c]],
                                   room_id[c], c)
       IN /\ active_connections' = st.ac
          /\ calls' = [calls EXCEPT ![c] = st.calls]
    /\ bcast' = [drop_references(bcast, active_connections, active_connections', room_id[c])
                    EXCEPT ![c] = NoBroadcast]
    /\ close_code' = [close_code EXCEPT ![c] = exit_code(why)]
    /\ exit' = [exit EXCEPT ![c] = why]
    /\ join_facts' = [join_facts EXCEPT ![c] = NoObject]
    /\ gate' = [gate EXCEPT ![c] = None]
    /\ UNCHANGED <<db, requests, last_op, inbox>>

(***************************************************************************)
(* websocket_chat lines 85-107, a connection attempt with query parameters *)
(* room_id and token: decode the token and check its type, load the user   *)
(* and require is_active, check the membership, then manager.connect.  The *)
(* checks only read the store, so the attempt is one step.                 *)
(***************************************************************************)
Join(c, rid, token) ==
    /\ pc[c] = "start"
    /\ LET p == decode_jwt_token(token) IN
        IF rejection(token, rid) # None
        THEN Reject(c, rejection(token, rid))
        ELSE /\ payload' = [payload EXCEPT ![c] = p]
             /\ user_id' = [user_id EXCEPT ![c] = p.sub]
             /\ room_id' = [room_id EXCEPT ![c] = rid]
             /\ active_connections' = connect(active_connections, rid, c)
             /\ calls' = [calls EXCEPT ![c].connect = @ + 1]
             /\ pc' = [pc EXCEPT ![c] = "recv"]
             /\ join_facts' = [join_facts EXCEPT ![c] =
                    [token_ok |-> token.valid /\ token.type = "access",
                     user_ok |-> \E u \in DOMAIN users : u = token.sub /\ users[u].is_active,
                     member |-> \E i \in DOMAIN memberships :
                                   /\ memberships[i] = [room_id |-> rid, user_id |-> token.sub]
                                   /\ rid \in DOMAIN rooms
                                   /\ rooms[rid].is_active]]
             /\ UNCHANGED <<db, requests, last_op, messages, row_gate, inbox, message_in, msg_obj,
                            block_reason, bcast, close_code, exit, gate, nframes>>

\* receive_json raises WebSocketDisconnect: the client went away
ClientDisconnect(c) ==
    /\ pc[c] = "recv"
    /\ Except(c, "disconnect")
    /\ UNCHANGED <<messages, row_gate, nframes>>

\* receive_json raises another Exception (the frame is not JSON, not an object)
ReceiveFault(c) ==
    /\ pc[c] = "recv"
    /\ Except(c, "fault")
    /\ UNCHANGED <<messages, row_gate, nframes>>

\* a lookup that creates the room's entry when there is none
get_connections_setdefault(ac, rid) ==
    [ac |-> IF rid \in DOMAIN ac THEN ac
            ELSE [r \in DOMAIN ac \cup {rid} |-> IF r = rid THEN {} ELSE ac[r]],
     connections |-> IF rid \in DOMAIN ac THEN ac[rid] ELSE {}]

\* manager.broadcast line 40: self.active_connections.get(room_id), a read:
\* the registry as the lookup leaves it, and the set found (None as the empty set)
get_connections(ac, rid) ==
    [ac |-> ac, connections |-> IF rid \in DOMAIN ac THEN ac[rid] ELSE {}]

(***************************************************************************)
(* manager.broadcast(rid, message) lines 40-48, called by task c: no set   *)
(* or an empty set, return; otherwise take the list of the room's          *)
(* connections and start sending.                                          *)
(***************************************************************************)
BroadcastCall(c, rid, message) ==
    LET got == get_connections(active_connections, rid)
    IN /\ active_connections' = got.ac
       /\ IF got.connections = {}
          THEN /\ pc' = [pc EXCEPT ![c] = "recv"]
               /\ UNCHANGED bcast
          ELSE /\ pc' = [pc EXCEPT ![c] = "sending"]
               /\ bcast' = [bcast EXCEPT ![c] =
                     [room |-> rid, message |-> message,
                      snap |-> broadcast_targets(got.connections),
                      todo |-> broadcast_targets(got.connections),
                      dead |-> {}, stale |-> FALSE, done |-> FALSE]]

\* websocket_chat lines 136-145: manager.broadcast with the frame of the
\* persisted message m
BroadcastBegin(c, m) ==
    /\ BroadcastCall(c, room_id[c], broadcast_frame(m))
    /\ msg_obj' = IF pc'[c] = "recv" THEN [msg_obj EXCEPT ![c] = NoObject] ELSE msg_obj

\* what check_message_allowed did, told apart from what save_message made of it
gate_outcome(text, result) ==
    IF gate_raises(text, result) THEN "raised"
    ELSE IF check_message_allowed_minilm(text, result)[1] THEN "allowed" ELSE "blocked"

blocked_or_passed(outcome) == IF outcome = "blocked" THEN "blocked" ELSE "passed"

\* a frame whose content is missing or empty: continue (websocket_chat 112-114)
IgnoreFrame(c, data) ==
    /\ pc[c] = "recv"
    /\ ~truthy(data.content)
    /\ UNCHANGED vars

(***************************************************************************)
(* websocket_chat lines 111-121 and save_message lines 232-251: a frame    *)
(* with content arrived, the MessageCreate is built and save_message runs  *)
(* the gate on the classifier's answer `result`.  Blocked: save_message    *)
(* returns (None, reason) and the session goes on to send the error frame. *)
(* Otherwise the row is added and save_message awaits the commit.          *)
(***************************************************************************)
ReceiveFrame(c, data, result) ==
    /\ pc[c] = "recv"
    /\ truthy(data.content)
    /\ nframes < MaxFrames
    /\ nframes' = nframes + 1
    /\ LET m_in == message_in_of(data, room_id[c])
           verdict == moderation(m_in.content, result)
       IN IF persists(verdict[1])
          THEN /\ message_in' = [message_in EXCEPT ![c] = m_in]
               /\ gate' = [gate EXCEPT ![c] = gate_outcome(m_in.content, result)]
               /\ pc' = [pc EXCEPT ![c] = "commit"]
               /\ UNCHANGED <<db, requests, last_op, messages, row_gate, active_connections, inbox, room_id,
                              payload, user_id, msg_obj, block_reason, bcast, close_code,
                              exit, calls, join_facts>>
          ELSE IF truthy(verdict[2])
          THEN /\ block_reason' = [block_reason EXCEPT ![c] = verdict[2]]
               /\ gate' = [gate EXCEPT ![c] = gate_outcome(m_in.content, result)]
               /\ pc' = [pc EXCEPT ![c] = "send_error"]
               /\ UNCHANGED <<db, requests, last_op, messages, row_gate, active_connections, inbox, room_id,
                              payload, user_id, message_in, msg_obj, bcast, close_code,
                              exit, calls, join_facts>>
          ELSE \* (None, None) came back: msg_obj.id raises AttributeError
               /\ Except(c, "fault")
               /\ UNCHANGED <<messages, row_gate>>

(***************************************************************************)
(* save_message line 252: await db.commit() returns, and the row is in the *)
(* table with the id and the created_at the store gave it, or it raises.   *)
(***************************************************************************)
Commit(c, ok) ==
    /\ pc[c] = "commit"
    /\ IF ok
       THEN LET row == new_message(message_in[c], user_id[c], Len(messages) + 1,
                                   last_created_at + 1)
            IN /\ messages' = Append(messages, row)
               /\ row_gate' = Append(row_gate, blocked_or_passed(gate[c]))
               /\ msg_obj' = [msg_obj EXCEPT ![c] = row]
               /\ message_in' = [message_in EXCEPT ![c] = NoObject]
               /\ pc' = [pc EXCEPT ![c] = "refresh"]
               /\ UNCHANGED <<db, requests, last_op, active_connections, inbox, room_id, payload, user_id,
                              block_reason, bcast, history, nframes>>
       ELSE /\ Except(c, "store_fault")
            /\ UNCHANGED <<messages, row_gate, nframes>>

(***************************************************************************)
(* save_message lines 253-255: await db.refresh(message) returns and       *)
(* (message, None) goes back to websocket_chat, which has no block_reason  *)
(* and calls manager.broadcast (lines 124-145); or the refresh raises.     *)
(***************************************************************************)
Refresh(c, ok) ==
    /\ pc[c] = "refresh"
    /\ IF ok
       THEN /\ BroadcastBegin(c, msg_obj[c])
            /\ gate' = [gate EXCEPT ![c] = None]
            /\ UNCHANGED <<db, requests, last_op, messages, row_gate, inbox, room_id,
                           payload, user_id, message_in, block_reason, close_code, exit,
                           calls, join_facts, nframes>>
       ELSE /\ Except(c, "fault")
            /\ UNCHANGED <<messages, row_gate, nframes>>

(***************************************************************************)
(* websocket_chat lines 124-132: await websocket.send_json(error_response) *)
(* returns and the loop continues, or it raises.                           *)
(***************************************************************************)
SendError(c, ok) ==
    /\ pc[c] = "send_error"
    /\ IF ok
       THEN /\ inbox' = [inbox EXCEPT ![c] = send_json(@, error_response(block_reason[c]))]
            /\ pc' = [pc EXCEPT ![c] = "recv"]
            /\ block_reason' = [block_reason EXCEPT ![c] = None]
            /\ gate' = [gate EXCEPT ![c] = None]
            /\ UNCHANGED <<db, requests, last_op, messages, row_gate, active_connections, room_id, payload,
                           user_id, message_in, msg_obj, bcast, close_code, exit, calls,
                           join_facts, nframes>>
       ELSE /\ Except(c, "fault")
            /\ UNCHANGED <<messages, row_gate, nframes>>

(***************************************************************************)
(* manager.broadcast lines 48-56: one send_json returns (ok) or raises.    *)
(* After the last one the dead connections are discarded and broadcast     *)
(* returns to the receive loop, with no await in between.                  *)
(***************************************************************************)
BroadcastSend(c, ws, ok) ==
    /\ pc[c] = "sending"
    /\ ws \in bcast[c].todo
    /\ LET b == [bcast[c] EXCEPT !.todo = @ \ {ws},
                                 !.dead = IF ok THEN @ ELSE @ \cup {ws}]
       IN /\ inbox' = IF ok THEN [inbox EXCEPT ![ws] = send_json(@, b.message)] ELSE inbox
          /\ IF b.todo = {}
             THEN /\ active_connections' = prune_dead(active_connections, b)
                  /\ bcast' = [bcast EXCEPT ![c] = NoBroadcast]
                  /\ msg_obj' = [msg_obj EXCEPT ![c] = NoObject]
                  /\ pc' = [pc EXCEPT ![c] = "recv"]
             ELSE /\ bcast' = [bcast EXCEPT ![c] = b]
                  /\ UNCHANGED <<active_connections, pc, msg_obj>>
    /\ UNCHANGED <<db, requests, last_op, messages, row_gate, room_id, payload, user_id, message_in,
                   block_reason, history, nframes>>

(***************************************************************************)
(* web.router.web_chat_room_send, the HTTP send path.  The request gets    *)
(* past get_user_from_cookie (lines 45-83: a valid access token of an      *)
(* active user) and past the membership lookup (lines 572-586, which does  *)
(* not look at ChatRoom.is_active); any other request is answered with an  *)
(* error and changes nothing.  Then save_message runs; nothing is          *)
(* broadcast.  A blocked message or a commit that raises writes no row.    *)
(***************************************************************************)
web_chat_room_send(token, rid, text, result, commit_ok) ==
    /\ nframes < MaxFrames
    /\ ~token_rejected(decode_jwt_token(token))
    /\ ~user_rejected(token.sub)
    /\ \E i \in DOMAIN memberships :
          memberships[i].room_id = rid /\ memberships[i].user_id = token.sub
    /\ nframes' = nframes + 1
    /\ LET m_in == MessageCreate(rid, text)
           verdict == moderation(text, result)
           row == new_message(m_in, token.sub, Len(messages) + 1, last_created_at + 1)
       IN IF persists(verdict[1]) /\ commit_ok
          THEN /\ messages' = Append(messages, row)
               /\ row_gate' = Append(row_gate, blocked_or_passed(gate_outcome(text, result)))
          ELSE UNCHANGED <<messages, row_gate>>
    /\ UNCHANGED <<db, requests, last_op, active_connections, inbox, pc, locals, bcast, history>>

Next ==
    \/ \E c \in Conns, rid \in RoomParams, token \in Tokens : Join(c, rid, token)
    \/ \E c \in Conns, data \in InboundFrames : IgnoreFrame(c, data)
    \/ \E c \in Conns, data \in InboundFrames, result \in ClassifierResults :
          ReceiveFrame(c, data, result)
    \/ \E c \in Conns, ok \in BOOLEAN : Commit(c, ok)
    \/ \E c \in Conns, ok \in BOOLEAN : Refresh(c, ok)
    \/ \E c \in Conns : ClientDisconnect(c)
    \/ \E c \in Conns : ReceiveFault(c)
    \/ \E c \in Conns, ok \in BOOLEAN : SendError(c, ok)
    \/ \E c \in Conns, ws \in Conns, ok \in BOOLEAN : BroadcastSend(c, ws, ok)
    \/ \E token \in Tokens, rid \in RoomParams, text \in Contents \ {None, ""},
          result \in ClassifierResults, commit_ok \in BOOLEAN :
          web_chat_room_send(token, rid, text, result, commit_ok)

Spec == Init /\ [][Next]_vars

(***************************************************************************)
(* The registry called directly, as its tests call it: any WebSocket with  *)
(* any room, in any order.  connect awaits websocket.accept() first, which *)
(* may raise (the registry is then left alone and the call did not         *)
(* return); last_op keeps, per pair, the last call that returned.          *)
(***************************************************************************)
MgrConnect(rid, ws, accepted) ==
    /\ active_connections' =
          IF accepted THEN connect(active_connections, rid, ws) ELSE active_connections
    /\ UNCHANGED <<db, requests, messages, row_gate, inbox, pc, locals, bcast, history,
                   nframes>>

MgrDisconnect(rid, ws) ==
    /\ active_connections' = disconnect(active_connections, rid, ws)
    /\ bcast' = drop_references(bcast, active_connections, active_connections', rid)
    /\ UNCHANGED <<db, requests, messages, row_gate, inbox, pc, locals, history, nframes>>

\* task c calls manager.broadcast(rid, payload); its payloads are numbered
MgrBroadcast(c, rid) ==
    /\ pc[c] # "sending"
    /\ nframes < MaxFrames
    /\ nframes' = nframes + 1
    /\ BroadcastCall(c, rid, [from |-> c, n |-> nframes + 1])
    /\ UNCHANGED <<db, requests, last_op, messages, row_gate, inbox, locals, history>>

\* connect and disconnect calls only, with the history of the calls kept
RecordedConnect(rid, ws, accepted) ==
    /\ MgrConnect(rid, ws, accepted)
    /\ last_op' = IF accepted THEN [last_op EXCEPT ![<<rid, ws>>] = "connect"] ELSE last_op

RecordedDisconnect(rid, ws) ==
    /\ MgrDisconnect(rid, ws)
    /\ last_op' = [last_op EXCEPT ![<<rid, ws>>] = "disconnect"]

RegistryNext ==
    \/ \E rid \in RegistryRooms, ws \in Conns, accepted \in BOOLEAN :
          RecordedConnect(rid, ws, accepted)
    \/ \E rid \in RegistryRooms, ws \in Conns : RecordedDisconnect(rid, ws)

RegistrySpec == Init /\ [][RegistryNext]_vars

\* connect, disconnect and broadcast calls in any interleaving
PlainConnect(rid, ws, accepted) == MgrConnect(rid, ws, accepted) /\ UNCHANGED last_op

PlainDisconnect(rid, ws) == MgrDisconnect(rid, ws) /\ UNCHANGED last_op

ManagerNext ==
    \/ \E rid \in MgrRooms, ws \in Conns, accepted \in BOOLEAN :
          PlainConnect(rid, ws, accepted)
    \/ \E rid \in MgrRooms, ws \in Conns : PlainDisconnect(rid, ws)
    \/ \E c \in Conns, rid \in MgrRooms : MgrBroadcast(c, rid)
    \/ \E c \in Conns, ws \in Conns, ok \in BOOLEAN : BroadcastSend(c, ws, ok)

ManagerSpec == Init /\ [][ManagerNext]_vars

(***************************************************************************)
(* The store operations, called through their HTTP routes by authenticated *)
(* active users.  Every request has its own database session; a request    *)
(* that awaits between reading and committing is suspended in req, and the *)
(* other requests run in between.  last_call keeps the arguments and the   *)
(* outcome of the request that returned last.                              *)
(***************************************************************************)
sessions == <<messages, row_gate, active_connections, inbox, pc, locals, bcast, history,
              nframes, last_op>>

is_member(rid, uid) ==
    \E i \in DOMAIN memberships :
        memberships[i].room_id = rid /\ memberships[i].user_id = uid

member_rows(rid) == {i \in DOMAIN memberships : memberships[i].room_id = rid}

member_users(rid) == {memberships[i].user_id : i \in member_rows(rid)}

\* rooms being created by suspended requests count for the bound
room_budget ==
    Len(rooms) + Cardinality({q \in Procs : req[q].op = "direct"}) < MaxRooms

\* db.add(room), db.flush(), db.add(membership)..., db.commit(): one more row of
\* chat_rooms with the next id, and a row of room_memberships per user id
insert_room(room_type, user_ids) ==
    /\ rooms' = Append(rooms, [room_type |-> room_type, is_active |-> TRUE])
    /\ memberships' = memberships \o
          [i \in DOMAIN user_ids |-> [room_id |-> Len(rooms) + 1, user_id |-> user_ids[i]]]

\* another request committed while a get_or_create_direct_room was suspended
overlapped_by_commit(rq) ==
    [q \in Procs |-> IF rq[q].op = "direct" THEN [rq[q] EXCEPT !.overlapped = TRUE]
                     ELSE rq[q]]

\* the handler that takes the next request: the first that is not suspended
free_handler(p) == req[p] = Idle /\ \A q \in Procs : req[q] = Idle => p <= q

(***************************************************************************)
(* Python values of ids: ChatRoomCreate.member_ids is a List[str], the     *)
(* caller's id an int; "1" and 1 are different values.  The store's        *)
(* user_id column is an Integer: a store either converts a text id on      *)
(* insert or refuses it.                                                   *)
(***************************************************************************)
PyInt(n) == [t |-> "int", v |-> n]

PyStr(n) == [t |-> "str", v |-> n]

Range(seq) == {seq[i] : i \in DOMAIN seq}

\* a sequence of the elements of a set (for ... in members); the text ids
\* first, by number, then the int ids: the caller, appended last
RECURSIVE as_list(_)
as_list(S) ==
    IF S = {} THEN <<>>
    ELSE LET x == CHOOSE y \in S :
                     \A z \in S : \/ (y.t = "str" /\ z.t = "int")
                                   \/ (y.t = z.t /\ y.v <= z.v)
         IN <<x>> \o as_list(S \ {x})

\* the member lists of the requests: up to two text ids of users 1 and 2
MemberIdLists ==
    {<<>>, <<PyStr(1)>>, <<PyStr(2)>>, <<PyStr(1), PyStr(1)>>, <<PyStr(1), PyStr(2)>>}

ChatRoomCreates == [room_type : {"direct", "group"}, member_ids : MemberIdLists]

\* create_room lines 28-31: list(set(data.member_ids)), and the caller
\* appended when no element equals it
create_room_members(data, current_user_id) ==
    IF current_user_id \in Range(data.member_ids)
    THEN Range(data.member_ids)
    ELSE Range(data.member_ids) \cup {current_user_id}

\* create_room lines 33-38: the ValueError, or None
create_room_error(data, members) ==
    IF data.room_type = "direct"
    THEN IF Cardinality(members) # 2
         THEN "Direct room must have exactly 2 distinct members." ELSE None
    ELSE IF Cardinality(members) < 2
         THEN "Group room must have at least 2 members." ELSE None

\* get_or_create_direct_room line 112: sorted([user_a_id, user_b_id])
sorted_pair(a, b) == IF a <= b THEN <<a, b>> ELSE <<b, a>>

(***************************************************************************)
(* get_or_create_direct_room lines 115-127: the ids of the DIRECT rooms    *)
(* that have exactly two membership rows whose user_id is one of user_ids  *)
(* (the query counts the rows; first() takes any of the rooms).            *)
(***************************************************************************)
direct_room_matches(user_ids) ==
    {r \in DOMAIN rooms :
        /\ rooms[r].room_type = "direct"
        /\ Cardinality({i \in member_rows(r) :
                           memberships[i].user_id \in {user_ids[1], user_ids[2]}}) = 2}

(***************************************************************************)
(* ChatRouter.open_direct_chat and get_or_create_direct_room up to the     *)
(* lookup: a chat with oneself is refused with 400; a room found is        *)
(* returned; otherwise the request goes on to create one.                  *)
(***************************************************************************)
OpenDirectChat(p, current_user, other_user_id) ==
    /\ free_handler(p)
    /\ ~user_rejected(current_user)
    /\ other_user_id \in DOMAIN users
    /\ LET user_ids == sorted_pair(current_user, other_user_id)
           call == [op |-> "open_direct_chat", a |-> current_user, b |-> other_user_id,
                    overlapped |-> FALSE]
       IN IF other_user_id = current_user
          THEN /\ last_call' = call @@ [status |-> 400, room |-> 0, created |-> FALSE]
               /\ UNCHANGED req
          ELSE IF direct_room_matches(user_ids) # {}
          THEN /\ \E r \in direct_room_matches(user_ids) :
                     last_call' = call @@ [status |-> 200, room |-> r, created |-> FALSE]
               /\ UNCHANGED req
          ELSE /\ room_budget
               /\ req' = [req EXCEPT ![p] = [op |-> "direct", a |-> current_user,
                                             b |-> other_user_id, user_ids |-> user_ids,
                                             overlapped |-> FALSE]]
               /\ UNCHANGED last_call
    /\ UNCHANGED <<db, sessions>>

\* get_or_create_direct_room lines 137-150: the new room and its two rows
DirectCreate(p) ==
    /\ req[p].op = "direct"
    /\ insert_room("direct", req[p].user_ids)
    /\ last_call' = [op |-> "open_direct_chat", a |-> req[p].a, b |-> req[p].b,
                     overlapped |-> req[p].overlapped, status |-> 200,
                     room |-> Len(rooms) + 1, created |-> TRUE]
    /\ req' = [overlapped_by_commit(req) EXCEPT ![p] = Idle]
    /\ UNCHANGED <<users, sessions>>

(***************************************************************************)
(* web_start_direct_chat: past the 404 for an other user that is no row of *)
(* users, always a new DIRECT room with a membership row for the current   *)
(* user and one for the other user.                                        *)
(***************************************************************************)
web_start_direct_chat(current_user, other_user_id) ==
    /\ ~user_rejected(current_user)
    /\ other_user_id \in DOMAIN users
    /\ Len(rooms) < MaxRooms
    /\ insert_room("direct", <<current_user, other_user_id>>)
    /\ req' = overlapped_by_commit(req)
    /\ UNCHANGED <<users, last_call, sessions>>

(***************************************************************************)
(* ChatRouter.create_room and ChatService.create_room: 400 on the          *)
(* ValueError; otherwise the room and a membership row per member, when    *)
(* the store takes the text ids (converts), else the insert raises and     *)
(* nothing is committed.                                                   *)
(***************************************************************************)
create_room(current_user, data, converts) ==
    /\ ~user_rejected(current_user)
    /\ LET members == create_room_members(data, PyInt(current_user))
           error == create_room_error(data, members)
           call == [op |-> "create_room", user |-> current_user, data |-> data]
       IN IF error # None
          THEN /\ last_call' = call @@ [status |-> 400, detail |-> error]
               /\ UNCHANGED <<rooms, memberships, req>>
          ELSE IF ~converts /\ \E m \in members : m.t = "str"
          THEN /\ last_call' = call @@ [status |-> 500, detail |-> None]
               /\ UNCHANGED <<rooms, memberships, req>>
          ELSE /\ Len(rooms) < MaxRooms
               /\ insert_room(data.room_type,
                              [i \in 1..Cardinality(members) |-> as_list(members)[i].v])
               /\ last_call' = call @@ [status |-> 200, detail |-> None]
               /\ req' = overlapped_by_commit(req)
    /\ UNCHANGED <<users, sessions>>

\* the usernames a request may name ("ux" is nobody's)
Usernames == {"u2", "u3", "ux"}

user_named(name) == {u \in DOMAIN users : users[u].username = name}

(***************************************************************************)
(* web_create_group: past the 400 for a username that is nobody's, a GROUP *)
(* room with a row for the current user and one for each other user named. *)
(***************************************************************************)
web_create_group(current_user, usernames) ==
    /\ ~user_rejected(current_user)
    /\ \A name \in usernames : user_named(name) # {}
    /\ Len(rooms) < MaxRooms
    /\ LET others == {u \in DOMAIN users : users[u].username \in usernames}
                        \ {current_user}
       IN insert_room("group",
             <<current_user>> \o
             [i \in 1..Cardinality(others) |-> as_list({PyInt(u) : u \in others})[i].v])
    /\ req' = overlapped_by_commit(req)
    /\ UNCHANGED <<users, last_call, sessions>>

\* an add_member_to_group that does not look for an existing membership
add_member_error_no_duplicate_check(rid, new_username, acting_user_id) ==
    IF rid \notin DOMAIN rooms THEN "Room not found"
    ELSE IF rooms[rid].room_type # "group" THEN "Can only add members to group rooms"
    ELSE IF ~is_member(rid, acting_user_id) THEN "You are not a member of this room"
    ELSE IF user_named(new_username) = {} THEN "User not found"
    ELSE None

\* add_member_to_group lines 169-208: the ValueError of the checks, or None
add_member_error(rid, new_username, acting_user_id) ==
    IF rid \notin DOMAIN rooms THEN "Room not found"
    ELSE IF rooms[rid].room_type # "group" THEN "Can only add members to group rooms"
    ELSE IF ~is_member(rid, acting_user_id) THEN "You are not a member of this room"
    ELSE IF user_named(new_username) = {} THEN "User not found"
    ELSE IF \E u \in user_named(new_username) : is_member(rid, u)
         THEN "User is already a member of this room"
    ELSE None

(***************************************************************************)
(* add_member_to_group up to its last check: the ValueError, or the        *)
(* request goes on to insert the membership.                               *)
(***************************************************************************)
AddMemberToGroup(p, rid, new_username, acting_user_id) ==
    /\ free_handler(p)
    /\ ~user_rejected(acting_user_id)
    /\ Len(memberships) < MaxMemberships
    /\ LET error == add_member_error(rid, new_username, acting_user_id)
           call == [op |-> "add_member_to_group", room_id |-> rid,
                    new_username |-> new_username, acting_user_id |-> acting_user_id]
       IN IF error # None
          THEN /\ last_call' = call @@ [error |-> error]
               /\ UNCHANGED req
          ELSE /\ req' = [req EXCEPT ![p] = call @@
                            [new_user_id |-> CHOOSE u \in user_named(new_username) : TRUE]]
               /\ UNCHANGED last_call
    /\ UNCHANGED <<db, sessions>>

\* add_member_to_group lines 210-218: the membership row is committed
AddMemberCommit(p) ==
    /\ req[p].op = "add_member_to_group"
    /\ memberships' = Append(memberships, [room_id |-> req[p].room_id,
                                           user_id |-> req[p].new_user_id])
    /\ last_call' = [op |-> "add_member_to_group", room_id |-> req[p].room_id,
                     new_username |-> req[p].new_username,
                     acting_user_id |-> req[p].acting_user_id, error |-> None]
    /\ req' = [overlapped_by_commit(req) EXCEPT ![p] = Idle]
    /\ UNCHANGED <<users, rooms, sessions>>

(***************************************************************************)
(* ChatRouter.get_messages: 404 with one detail when get_room_for_user     *)
(* finds nothing, else the messages of the room.                           *)
(***************************************************************************)
\* a history fetch that tells a missing room from a room of others
get_messages_response_tells_apart(rid, uid) ==
    IF rid \notin DOMAIN rooms
    THEN [status |-> 404, detail |-> "Room not found"]
    ELSE IF get_room_for_user(rid, uid) = 0
    THEN [status |-> 403, detail |-> "You are not a member"]
    ELSE [status |-> 200, detail |-> ""]

get_messages_response(rid, uid) ==
    IF get_room_for_user(rid, uid) = 0
    THEN [status |-> 404, detail |-> "Room not found or you are not a member"]
    ELSE [status |-> 200, detail |-> ""]

get_messages(current_user, rid) ==
    /\ ~user_rejected(current_user)
    /\ last_call' = [op |-> "get_messages", user |-> current_user, room_id |-> rid]
                        @@ get_messages_response(rid, current_user)
    /\ UNCHANGED <<db, req, sessions>>

StoreNext ==
    \/ \E p \in Procs, u \in Subjects, o \in Subjects : OpenDirectChat(p, u, o)
    \/ \E p \in Procs : DirectCreate(p)
    \/ \E u \in Subjects, o \in Subjects : web_start_direct_chat(u, o)
    \/ \E u \in Subjects, rid \in 1..(MaxRooms + 1) : get_messages(u, rid)
    \/ \E u \in Subjects, data \in ChatRoomCreates, converts \in BOOLEAN :
          create_room(u, data, converts)
    \/ \E u \in Subjects, usernames \in SUBSET Usernames : web_create_group(u, usernames)
    \/ \E p \in Procs, rid \in 1..(MaxRooms + 1), name \in Usernames, u \in Subjects :
          AddMemberToGroup(p, rid, name, u)
    \/ \E p \in Procs : AddMemberCommit(p)

StoreSpec == Init /\ [][StoreNext]_vars

(***************************************************************************)
(* The three places that take a token: validate_password_reset_token,      *)
(* get_current_user (the API's authentication) and the join of             *)
(* websocket_chat.  A token's sub is the user id its subject text names.   *)
(***************************************************************************)
\* security.create_password_reset_token; expired: expires_delta is not positive
create_password_reset_token(uid, expired) ==
    [sub |-> uid, type |-> "password_reset", valid |-> ~expired]

\* a validation that does not look at the token's type
validate_password_reset_token_any_type(token) ==
    IF ~token.valid THEN 0 ELSE token.sub

\* security.validate_password_reset_token: the user id, or None
validate_password_reset_token(token) ==
    IF ~token.valid THEN 0
    ELSE IF token.type # "password_reset" THEN 0
    ELSE token.sub

\* deps.get_current_user past the header check: the 401 it raises, or the user
get_current_user(token) ==
    LET p == decode_jwt_token(token) IN
    IF token_rejected(p)
    THEN [status |-> 401, detail |-> "Invalid or expired token", user |-> 0]
    ELSE IF user_rejected(p.sub)
    THEN [status |-> 401, detail |-> "Inactive or missing user", user |-> 0]
    ELSE [status |-> 200, detail |-> "", user |-> p.sub]

ValidateResetToken(token) ==
    /\ last_call' = [op |-> "validate_password_reset_token", token |-> token,
                     result |-> validate_password_reset_token(token)]
    /\ UNCHANGED <<db, req, sessions>>

ApiAuthenticate(token) ==
    /\ last_call' = [op |-> "get_current_user", token |-> token]
                        @@ get_current_user(token)
    /\ UNCHANGED <<db, req, sessions>>

AuthNext ==
    \/ \E token \in Tokens : ValidateResetToken(token)
    \/ \E token \in Tokens : ApiAuthenticate(token)
    \/ \E c \in Conns, rid \in RoomParams, token \in Tokens : Join(c, rid, token)
    \/ \E c \in Conns : ClientDisconnect(c)

AuthSpec == Init /\ [][AuthNext]_vars

\* connect, disconnect and broadcast calls in any interleaving, with the
\* history of the connect and disconnect calls kept
FlightNext ==
    \/ \E rid \in MgrRooms, ws \in Conns, accepted \in BOOLEAN :
          RecordedConnect(rid, ws, accepted)
    \/ \E rid \in MgrRooms, ws \in Conns : RecordedDisconnect(rid, ws)
    \/ \E c \in Conns, rid \in MgrRooms : MgrBroadcast(c, rid)
    \/ \E c \in Conns, ws \in Conns, ok \in BOOLEAN : BroadcastSend(c, ws, ok)

FlightSpec == Init /\ [][FlightNext]_vars

(***************************************************************************)
(* admin.admin_toggle_user_active, called by an authenticated active admin *)
(* for a user other than themselves: the user's is_active is flipped and   *)
(* committed.  Any other request is answered with 401, 403, 404 or 400 and *)
(* changes nothing.  The sessions of websocket_chat run as before.         *)
(***************************************************************************)
admin_toggle_user_active(token, uid) ==
    /\ get_current_user(token).status = 200
    /\ users[get_current_user(token).user].is_admin
    /\ uid \in DOMAIN users
    /\ uid # get_current_user(token).user
    /\ users' = [users EXCEPT ![uid].is_active = ~@]
    /\ UNCHANGED <<rooms, memberships, requests, sessions>>

AdminNext ==
    \/ Next
    \/ \E token \in Tokens, uid \in Subjects : admin_toggle_user_active(token, uid)

AdminSpec == Init /\ [][AdminNext]_vars

(***************************************************************************)
(* The sessions with the ignored frames recorded.  `continue` at line 114  *)
(* assigns nothing, so IgnoreFrame leaves no trace; RecordedIgnore is the   *)
(* same step with the history variable gate noting that the frame was read *)
(* and save_message, hence the gate, was not called for it.                *)
(***************************************************************************)
RecordedIgnore(c, data) ==
    /\ pc[c] = "recv"
    /\ ~truthy(data.content)
    /\ gate' = [gate EXCEPT ![c] = "not_called"]
    /\ UNCHANGED <<users, rooms, memberships, messages, row_gate, active_connections,
                   inbox, pc, room_id, payload, user_id, message_in, msg_obj,
                   block_reason, bcast, close_code, exit, calls, join_facts, nframes,
                   req, last_call, last_op>>

IgnoreNext ==
    \/ \E c \in Conns, rid \in RoomParams, token \in Tokens : Join(c, rid, token)
    \/ \E c \in Conns, data \in InboundFrames : RecordedIgnore(c, data)
    \/ \E c \in Conns, data \in InboundFrames, result \in ClassifierResults :
          ReceiveFrame(c, data, result)
    \/ \E c \in Conns, ok \in BOOLEAN : Commit(c, ok)
    \/ \E c \in Conns, ok \in BOOLEAN : Refresh(c, ok)
    \/ \E c \in Conns : ClientDisconnect(c)
    \/ \E c \in Conns : ReceiveFault(c)
    \/ \E c \in Conns, ok \in BOOLEAN : SendError(c, ok)
    \/ \E c \in Conns, ws \in Conns, ok \in BOOLEAN : BroadcastSend(c, ws, ok)

IgnoreSpec == Init /\ [][IgnoreNext]_vars

(***************************************************************************)
(* Properties.                                                             *)
(***************************************************************************)
\* how often frame f is in the sequence of delivered frames
Count(seq, f) == Cardinality({i \in DOMAIN seq : seq[i] = f})

\* session c's manager.broadcast call returns in this step
BroadcastReturns(c) == pc[c] = "sending" /\ pc'[c] # "sending"

\* the connections whose send_json raised during c's broadcast, at its return
Failed(c) ==
    bcast[c].dead \cup {ws \in bcast[c].todo : inbox'[ws] = inbox[ws]}

registered(c) == \E r \in DOMAIN active_connections : c \in active_connections[r]

(***************************************************************************)
(* C1: a broadcast to a room with subscriber set S during which send_json  *)
(* raises for the subset F returns to the caller without raising, has      *)
(* delivered the payload exactly once to every connection of S \ F and to  *)
(* none of F, and leaves no connection of F in the room's set.             *)
(***************************************************************************)
C1_BroadcastSurvivesSendErrors ==
    [][\A c \in Conns : BroadcastReturns(c) =>
          LET b == bcast[c]
              F == Failed(c)
          IN /\ pc'[c] = "recv"
             /\ exit'[c] = None
             /\ \A d \in b.snap \ F : Count(inbox'[d], b.message) = 1
             /\ \A d \in F : Count(inbox'[d], b.message) = 0
             /\ b.room \in DOMAIN active_connections'
                   => active_connections'[b.room] \cap F = {}]_vars

\* a broadcast has returned that delivered to c and failed for d, now pruned
C1_Witness ==
    \E c, d \in Conns :
        /\ c # d
        /\ pc[c] = "recv" /\ pc[d] = "recv"
        /\ room_id[c] = room_id[d]
        /\ Len(messages) = 1
        /\ inbox[c] = <<broadcast_frame(messages[1])>>
        /\ inbox[d] = <<>>
        /\ room_id[c] \in DOMAIN active_connections
        /\ active_connections[room_id[c]] = {c}

(***************************************************************************)
(* C2: no room id is ever a key of active_connections with an empty set.   *)
(***************************************************************************)
C2_NoEmptyRoomEntry ==
    \A r \in DOMAIN active_connections : active_connections[r] # {}

(***************************************************************************)
(* C3, as claimed: every session that reached Closed, by whatever path,    *)
(* has called manager.disconnect exactly once.                             *)
(***************************************************************************)
C3_DisconnectOnEveryPath ==
    \A c \in Conns : pc[c] = "closed" => calls[c].disconnect = 1

(***************************************************************************)
(* C3, amended: a session that was registered and reached Closed by a      *)
(* client disconnect or by an Exception raised in its receive loop has     *)
(* called manager.disconnect exactly once and is in no room's set; a       *)
(* session closed by a join rejection has called neither manager.connect   *)
(* nor manager.disconnect; no session calls disconnect before it closes.   *)
(***************************************************************************)
C3_DisconnectOnceAfterJoin ==
    \A c \in Conns :
        IF pc[c] = "closed"
        THEN IF exit[c] \in {"disconnect", "fault", "store_fault"}
             THEN calls[c] = [connect |-> 1, disconnect |-> 1] /\ ~registered(c)
             ELSE calls[c] = [connect |-> 0, disconnect |-> 0] /\ ~registered(c)
        ELSE calls[c].disconnect = 0

\* one session closed by a fault after joining, another closed by a rejection
C3_Witness ==
    \E c, d \in Conns :
        /\ pc[c] = "closed" /\ exit[c] = "fault" /\ calls[c].disconnect = 1
        /\ pc[d] = "closed" /\ exit[d] = "not_member" /\ calls[d].disconnect = 0

(***************************************************************************)
(* C4, as claimed: the sending session's own connection never receives the *)
(* frame of the broadcast it runs.                                         *)
(***************************************************************************)
C4_NoEchoToSender ==
    [][\A c \in Conns :
          pc[c] = "sending" => Count(inbox'[c], bcast[c].message) = 0]_vars

(***************************************************************************)
(* C4, amended: the frame goes to every connection registered under the    *)
(* room when the broadcast starts, the sender's own connection included:   *)
(* the broadcast targets exactly the room's set, and when it returns every *)
(* target whose send did not fail, the sender among them, holds the frame  *)
(* exactly once.                                                           *)
(***************************************************************************)
C4_EchoToSender ==
    [][\A c \in Conns :
          /\ (pc[c] = "refresh" /\ pc'[c] = "sending")
                => /\ bcast'[c].snap = active_connections[room_id[c]]
                   /\ bcast'[c].todo = bcast'[c].snap
                   /\ registered(c) => c \in bcast'[c].todo
          /\ (BroadcastReturns(c) /\ c \in bcast[c].snap \ Failed(c))
                => Count(inbox'[c], bcast[c].message) = 1]_vars

\* the sender holds the frame of its own message while its broadcast runs
C4_Witness ==
    \E c \in Conns :
        /\ pc[c] = "sending"
        /\ bcast[c].message.sender_id = user_id[c]
        /\ Count(inbox[c], bcast[c].message) = 1

(***************************************************************************)
(* C5: when a session's allowed message was persisted, every other         *)
(* connection registered under the session's room when the broadcast       *)
(* starts and whose send does not fail receives exactly one frame with the *)
(* id, content and created_at of the stored row, room_id the room the      *)
(* session was authorized for and sender_id its authenticated user,        *)
(* whatever the inbound frame contained.                                   *)
(***************************************************************************)
C5_ExpectedFrame(c) ==
    LET row == messages[msg_obj[c].id]
    IN [id |-> row.id, room_id |-> room_id[c], sender_id |-> user_id[c],
        content |-> row.content, created_at |-> <<"iso", row.created_at>>]

C5_OthersReceivePersistedMessage ==
    [][\A c \in Conns :
          /\ (pc[c] = "refresh" /\ pc'[c] = "sending")
                => /\ bcast'[c].message = C5_ExpectedFrame(c)
                   /\ messages[msg_obj[c].id].room_id = room_id[c]
                   /\ messages[msg_obj[c].id].sender_id = user_id[c]
                   /\ bcast'[c].snap = active_connections[room_id[c]]
          /\ BroadcastReturns(c)
                => \A d \in (bcast[c].snap \ Failed(c)) \ {c} :
                      /\ Count(inbox'[d], C5_ExpectedFrame(c)) = 1
                      /\ \A i \in DOMAIN inbox'[d] :
                            inbox'[d][i] # C5_ExpectedFrame(c)
                               => ("id" \in DOMAIN inbox'[d][i]
                                     => inbox'[d][i].id # msg_obj[c].id)]_vars

\* the other connection of room 1 holds exactly the frame of the row that
\* user 1's session stored
C5_Witness ==
    \E c, d \in Conns :
        /\ c # d
        /\ pc[c] = "recv" /\ pc[d] = "recv"
        /\ room_id[c] = 1 /\ room_id[d] = 1 /\ user_id[c] = 1
        /\ Len(messages) = 1
        /\ messages[1] = [id |-> 1, room_id |-> 1, sender_id |-> 1,
                           content |-> "hi", created_at |-> 1]
        /\ inbox[d] = <<[id |-> 1, room_id |-> 1, sender_id |-> 1,
                          content |-> "hi", created_at |-> <<"iso", 1>>]>>

(***************************************************************************)
(* C6: when the gate blocks a session's message, nothing is written and    *)
(* nothing is delivered by that step, the session goes on to send one      *)
(* error frame; when that send returns, the sender holds exactly one more  *)
(* frame, the error frame with the gate's reason, no other connection      *)
(* holds anything new, the table of messages is as it was and the session  *)
(* is back at its receive loop, still registered if it was.  (A send that  *)
(* raises ends the session by the fault path of C3, nothing delivered.)    *)
(***************************************************************************)
C6_ErrorFrame == [type |-> "error",
                  message |-> <<"Your message was blocked: ",
                                "Blocked as toxic (score=0.50)">>]

C6_BlockedMessageOnlyToSender ==
    [][\A c \in Conns :
          /\ (gate'[c] = "blocked" /\ gate[c] # "blocked")
                => /\ pc'[c] = "send_error"
                   /\ block_reason'[c] = "Blocked as toxic (score=0.50)"
                   /\ messages' = messages
                   /\ inbox' = inbox
                   /\ active_connections' = active_connections
          /\ (pc[c] = "send_error")
                => /\ gate[c] = "blocked"
                   /\ pc'[c] \in {"send_error", "recv", "closed"}
                   /\ pc'[c] = "recv"
                         => /\ inbox'[c] = Append(inbox[c], C6_ErrorFrame)
                            /\ \A d \in Conns \ {c} : inbox'[d] = inbox[d]
                            /\ messages' = messages
                            /\ active_connections' = active_connections
                            /\ exit'[c] = None
                   /\ pc'[c] = "closed"
                         => /\ exit'[c] = "fault"
                            /\ inbox' = inbox
                            /\ messages' = messages]_vars

\* a blocked message was answered: the sender is back in its loop with the
\* error frame, the other connection of the room has nothing, no row exists
C6_Witness ==
    \E c, d \in Conns :
        /\ c # d
        /\ pc[c] = "recv" /\ pc[d] = "recv"
        /\ room_id[c] = room_id[d]
        /\ registered(c) /\ registered(d)
        /\ nframes = 1
        /\ inbox[c] = <<C6_ErrorFrame>>
        /\ inbox[d] = <<>>
        /\ messages = <<>>

(***************************************************************************)
(* C7: every row of messages, written by the WebSocket session or by the   *)
(* HTTP send path, was written by save_message for a content the gate did  *)
(* not block; rows are only ever appended, one at a time; and a step in    *)
(* which the gate blocks leaves the table as it is and hands back          *)
(* (None, reason).                                                         *)
(***************************************************************************)
C7_RowsPassedTheGate ==
    [][/\ Len(row_gate') = Len(messages')
       /\ \A i \in DOMAIN row_gate' : row_gate'[i] = "passed"
       /\ \/ messages' = messages
          \/ /\ Len(messages') = Len(messages) + 1
             /\ SubSeq(messages', 1, Len(messages)) = messages
       /\ \A c \in Conns :
             (gate'[c] = "blocked" /\ gate[c] # "blocked")
                => /\ messages' = messages
                   /\ msg_obj'[c] = NoObject
                   /\ message_in'[c] = NoObject
                   /\ truthy(block_reason'[c])]_vars

\* a row written by the HTTP path (only it writes to the deactivated room 3)
\* and a row written by a session that save_message is about to return
C7_Witness ==
    /\ Len(messages) = 2
    /\ messages[1].room_id = 3
    /\ row_gate = <<"passed", "passed">>
    /\ \E c \in Conns : pc[c] = "refresh" /\ msg_obj[c] = messages[2]

(***************************************************************************)
(* C8: when the gate raises inside save_message the message is treated as  *)
(* allowed: save_message goes on to the commit, with no block reason; the  *)
(* commit that returns writes the row; the refresh that returns hands      *)
(* (message, None) back and the session goes on to the broadcast; the      *)
(* session never turns to the error frame and its own step delivers no     *)
(* frame before the broadcast.                                             *)
(***************************************************************************)
C8_GateFailureFailsOpen ==
    [][\A c \in Conns :
          /\ (gate'[c] = "raised" /\ gate[c] # "raised")
                => /\ pc'[c] = "commit"
                   /\ block_reason'[c] = None
                   /\ message_in'[c].content = "hi"
                   /\ inbox' = inbox
          /\ (gate[c] = "raised")
                => /\ pc[c] \in {"commit", "refresh"}
                   /\ pc'[c] # "send_error"
                   /\ block_reason'[c] = None
          /\ (gate[c] = "raised" /\ pc[c] = "commit" /\ pc'[c] = "refresh")
                => /\ Len(messages') = Len(messages) + 1
                   /\ messages'[Len(messages')].content = message_in[c].content
                   /\ messages'[Len(messages')].room_id = room_id[c]
                   /\ messages'[Len(messages')].sender_id = user_id[c]
                   /\ msg_obj'[c] = messages'[Len(messages')]
          /\ (gate[c] = "raised" /\ pc[c] = "refresh" /\ pc'[c] \notin {"refresh", "closed"})
                => /\ pc'[c] \in {"sending", "recv"}
                   /\ pc'[c] = "sending" => bcast'[c].message.id = msg_obj[c].id
                   /\ inbox' = inbox
                   /\ messages' = messages]_vars

\* the gate raised and the message is in the table, about to be returned
C8_Witness ==
    \E c \in Conns :
        /\ pc[c] = "refresh"
        /\ gate[c] = "raised"
        /\ msg_obj[c] = messages[Len(messages)]
        /\ msg_obj[c].content = "hi"
        /\ block_reason[c] = None
        /\ inbox[c] = <<>>

(***************************************************************************)
(* C9: a connection is in a room's set, and a frame of it is handled, only *)
(* if at its join the token was valid and of type access, its subject an   *)
(* existing active user, and that user a member of the active room asked   *)
(* for; a session closed by a rejection never called manager.connect, is   *)
(* in no set and was sent nothing.                                         *)
(***************************************************************************)
C9_Admitted(c) ==
    join_facts[c] = [token_ok |-> TRUE, user_ok |-> TRUE, member |-> TRUE]

C9_RegisteredOnlyIfAuthorized ==
    [][\A c \in Conns :
          /\ (\E r \in DOMAIN active_connections' : c \in active_connections'[r])
                => /\ join_facts'[c] = [token_ok |-> TRUE, user_ok |-> TRUE, member |-> TRUE]
                   /\ calls'[c].connect = 1
                   /\ c \in active_connections'[room_id'[c]]
          /\ (pc[c] # pc'[c] /\ pc[c] # "start") => C9_Admitted(c)
          /\ (pc[c] = "start" /\ pc'[c] = "closed")
                => /\ exit'[c] \in {"invalid_credential", "wrong_kind", "bad_user",
                                    "not_member"}
                   /\ calls'[c] = [connect |-> 0, disconnect |-> 0]
                   /\ inbox'[c] = <<>>
                   /\ \A r \in DOMAIN active_connections' : c \notin active_connections'[r]
          /\ (pc[c] = "closed") => pc'[c] = "closed"]_vars

\* one connection registered and handling a frame, another turned away
C9_Witness ==
    \E c, d \in Conns :
        /\ registered(c) /\ pc[c] = "commit" /\ C9_Admitted(c)
        /\ pc[d] = "closed" /\ exit[d] = "wrong_kind" /\ calls[d].connect = 0

(***************************************************************************)
(* C10, as claimed: two sessions turned away at the join for different     *)
(* ones of the four conditions are closed with different codes.            *)
(***************************************************************************)
C10_Rejections == {"invalid_credential", "wrong_kind", "bad_user", "not_member"}

C10_FourDistinctCodes ==
    \A c, d \in Conns :
        (/\ pc[c] = "closed" /\ pc[d] = "closed"
         /\ exit[c] \in C10_Rejections /\ exit[d] \in C10_Rejections
         /\ exit[c] # exit[d])
            => close_code[c] # close_code[d]

(***************************************************************************)
(* C10, amended: the join rejections use three distinguishable codes: 4401 *)
(* for a token that is invalid or expired or not of the access kind, 4403  *)
(* for an inactive or unknown user, 4404 for a non-member.                 *)
(***************************************************************************)
C10_ThreeDistinctCodes ==
    \A c \in Conns :
        (pc[c] = "closed" /\ exit[c] \in C10_Rejections)
            => close_code[c] = (IF exit[c] \in {"invalid_credential", "wrong_kind"}
                                THEN 4401
                                ELSE IF exit[c] = "bad_user" THEN 4403 ELSE 4404)

\* an inactive user and a non-member were turned away, with different codes
C10_Witness ==
    \E c, d \in Conns :
        /\ pc[c] = "closed" /\ exit[c] = "bad_user" /\ close_code[c] = 4403
        /\ pc[d] = "closed" /\ exit[d] = "not_member" /\ close_code[d] = 4404

(***************************************************************************)
(* C18: the payloads one caller broadcasts one after the other reach every *)
(* connection in the order of the calls: in what a connection has          *)
(* received, a payload of a caller never comes before an earlier payload   *)
(* of the same caller.                                                     *)
(***************************************************************************)
C18_CallerOrderKept ==
    \A d \in Conns : \A i, j \in DOMAIN inbox[d] :
        (i < j /\ inbox[d][i].from = inbox[d][j].from) => inbox[d][i].n < inbox[d][j].n

\* a connection still registered holds two payloads of one caller, in order
C18_Witness ==
    \E c, d \in Conns :
        /\ 1 \in DOMAIN active_connections /\ d \in active_connections[1]
        /\ pc[c] = "recv"
        /\ inbox[d] = <<[from |-> c, n |-> 1], [from |-> c, n |-> 2]>>

(***************************************************************************)
(* C19: after any sequence of connect and disconnect calls, a connection   *)
(* is in a room's set exactly when the last call that returned for that    *)
(* (room, connection) pair was a connect; a room is a key only while its   *)
(* set has a member.                                                       *)
(***************************************************************************)
C19_MembershipIsLastCall ==
    /\ \A r \in RegistryRooms, ws \in Conns :
          (r \in DOMAIN active_connections /\ ws \in active_connections[r])
             <=> last_op[<<r, ws>>] = "connect"
    /\ \A r \in DOMAIN active_connections :
          r \in RegistryRooms /\ active_connections[r] # {}

\* one connection connected, one disconnected again, and a disconnect called
\* for a room that is no key
C19_Witness ==
    /\ active_connections = (1 :> {"ws1"})
    /\ last_op[<<1, "ws1">>] = "connect"
    /\ last_op[<<1, "ws2">>] = "disconnect"
    /\ last_op[<<2, "ws1">>] = "disconnect"
    /\ last_op[<<3, "ws2">>] = "none"

(***************************************************************************)
(* C20: a broadcast call on a room without subscribers returns at once,    *)
(* delivers nothing to any connection and leaves active_connections as it  *)
(* was; a broadcast call starts sending only to the non-empty set of the   *)
(* room it was called with, and does not change the registry either.       *)
(***************************************************************************)
C20_BroadcastCalled == nframes' # nframes

C20_EmptyRoomBroadcastNoEffect ==
    [][C20_BroadcastCalled =>
          /\ active_connections' = active_connections
          /\ inbox' = inbox
          /\ \A c \in Conns :
                bcast'[c] # bcast[c]
                   => /\ bcast'[c].room \in DOMAIN active_connections
                      /\ active_connections[bcast'[c].room] # {}
                      /\ bcast'[c].snap = active_connections[bcast'[c].room]
          /\ bcast' = bcast
                => \E c \in Conns : pc[c] # "sending" /\ pc'[c] = "recv"]_vars

\* a broadcast was called and returned with nothing sent, while room 1 has its
\* subscribers and room 2 is no key
C20_Witness ==
    /\ nframes = 1
    /\ \E c \in Conns : pc[c] = "recv"
    /\ \A c \in Conns : bcast[c] = NoBroadcast /\ inbox[c] = <<>>
    /\ active_connections = (1 :> Conns)


\* an access token of user uid that decodes
access_token(uid) == [sub |-> uid, type |-> "access", valid |-> TRUE]

\* a room id that is no row of chat_rooms
no_such_room == Len(rooms) + 1

(***************************************************************************)
(* C11: for a user who is not a member of a room, get_room_for_user gives  *)
(* the same None as for a room id that does not exist, and so do the       *)
(* WebSocket close code and the status and detail of the history fetch; a  *)
(* room is returned only if a membership row of the user exists in it and  *)
(* the room is active.                                                     *)
(***************************************************************************)
C11_NonMemberLooksLikeNoRoom ==
    /\ \A uid \in DOMAIN users, rid \in 1..(MaxRooms + 1) :
          /\ ~is_member(rid, uid) =>
                /\ get_room_for_user(rid, uid) = 0
                /\ get_room_for_user(rid, uid) = get_room_for_user(no_such_room, uid)
                /\ rejection_close_code(rejection(access_token(uid), rid))
                      = rejection_close_code(rejection(access_token(uid), no_such_room))
                /\ get_messages_response(rid, uid) = get_messages_response(no_such_room, uid)
          /\ get_room_for_user(rid, uid) # 0 =>
                /\ get_room_for_user(rid, uid) = rid
                /\ rid \in DOMAIN rooms
                /\ rooms[rid].is_active
                /\ is_member(rid, uid)
    /\ last_call.op = "get_messages" =>
          IF last_call.status = 200
          THEN /\ last_call.room_id \in DOMAIN rooms
               /\ rooms[last_call.room_id].is_active
               /\ is_member(last_call.room_id, last_call.user)
          ELSE /\ last_call.status = 404
               /\ last_call.detail = "Room not found or you are not a member"

\* a history fetch of an active room by a user who is not a member was refused
C11_Witness ==
    /\ last_call.op = "get_messages"
    /\ last_call.status = 404
    /\ last_call.room_id \in DOMAIN rooms
    /\ rooms[last_call.room_id].is_active
    /\ ~is_member(last_call.room_id, last_call.user)

\* the DIRECT rooms whose members are exactly the users of pair
direct_rooms_of(pair) ==
    {r \in DOMAIN rooms : rooms[r].room_type = "direct" /\ member_users(r) = pair}

\* an open_direct_chat that no other request's commit overlapped returns 200
DirectCallReturns ==
    /\ last_call' # last_call
    /\ last_call'.op = "open_direct_chat"
    /\ last_call'.status = 200
    /\ ~last_call'.overlapped

(***************************************************************************)
(* C12: called sequentially for distinct users a and b,                    *)
(* get_or_create_direct_room is idempotent and symmetric: when no DIRECT   *)
(* room of {a, b} exists the call creates one DIRECT room whose            *)
(* memberships are exactly a and b; when one exists, a call with (a, b) or *)
(* (b, a) returns that same room and creates no room and no membership.    *)
(***************************************************************************)
C12_DirectRoomIdempotent ==
    [][DirectCallReturns =>
          LET pair == {last_call'.a, last_call'.b}
              pre == direct_rooms_of(pair)
              new == Len(rooms) + 1
          IN IF pre = {}
             THEN /\ last_call'.created
                  /\ last_call'.room = new
                  /\ rooms' = Append(rooms, rooms'[new])
                  /\ rooms'[new].room_type = "direct"
                  /\ Len(memberships') = Len(memberships) + 2
                  /\ SubSeq(memberships', 1, Len(memberships)) = memberships
                  /\ \A i \in (Len(memberships) + 1)..Len(memberships') :
                        memberships'[i].room_id = new
                  /\ {memberships'[i].user_id :
                         i \in (Len(memberships) + 1)..Len(memberships')} = pair
             ELSE /\ pre = {last_call'.room}
                  /\ rooms' = rooms
                  /\ memberships' = memberships]_vars

(***************************************************************************)
(* C13: in every reachable state of the store, after any sequence and      *)
(* interleaving of create_room, get_or_create_direct_room and the web      *)
(* direct-chat route, at most one DIRECT room exists for each unordered    *)
(* pair of users whose members are that pair.                              *)
(***************************************************************************)
C13_OneDirectRoomPerPair ==
    \A r1 \in DOMAIN rooms, r2 \in DOMAIN rooms :
        /\ r1 # r2
        /\ rooms[r1].room_type = "direct"
        /\ rooms[r2].room_type = "direct"
        /\ Cardinality(member_users(r1)) = 2
        => member_users(r1) # member_users(r2)

(***************************************************************************)
(* C14: in every reachable state every DIRECT room has exactly two         *)
(* memberships, of two distinct users, and no operation adds a membership  *)
(* to a DIRECT room that exists.                                           *)
(***************************************************************************)
C14_DirectRoomsHaveTwoUsers ==
    [][/\ \A r \in DOMAIN rooms' :
             rooms'[r].room_type = "direct" =>
                /\ Cardinality({i \in DOMAIN memberships' :
                                   memberships'[i].room_id = r}) = 2
                /\ Cardinality({memberships'[i].user_id :
                                   i \in {j \in DOMAIN memberships' :
                                             memberships'[j].room_id = r}}) = 2
       /\ \A r \in DOMAIN rooms :
             rooms[r].room_type = "direct" =>
                {i \in DOMAIN memberships' : memberships'[i].room_id = r} = member_rows(r)]_vars

(***************************************************************************)
(* C15: in every reachable state, after any sequence and interleaving of   *)
(* create_room, get_or_create_direct_room, add_member_to_group and the web *)
(* room-creation routes, no two rows of room_memberships have the same     *)
(* room_id and user_id.                                                    *)
(***************************************************************************)
C15_MembershipRowsUnique ==
    \A i \in DOMAIN memberships, j \in DOMAIN memberships :
        i # j => ~(/\ memberships[i].room_id = memberships[j].room_id
                   /\ memberships[i].user_id = memberships[j].user_id)

\* one of the five conditions under which add_member_to_group is to fail
add_member_refused(rid, new_username, acting_user_id) ==
    \/ rid \notin DOMAIN rooms
    \/ rooms[rid].room_type # "group"
    \/ ~is_member(rid, acting_user_id)
    \/ \A u \in DOMAIN users : users[u].username # new_username
    \/ \E u \in DOMAIN users : users[u].username = new_username /\ is_member(rid, u)

(***************************************************************************)
(* C16: add_member_to_group raises ValueError and leaves rooms and         *)
(* memberships unchanged when the room does not exist, is not a GROUP      *)
(* room, the acting user is not a member of it, nobody has the username,   *)
(* or that user is already a member; in every other case it passes its     *)
(* checks and adds exactly one membership, of the room and the user named, *)
(* and changes nothing else.                                               *)
(***************************************************************************)
C16_AddMemberFailsOrAddsOne ==
    [][/\ (/\ last_call' # last_call
           /\ last_call'.op = "add_member_to_group"
           /\ last_call'.error # None)
          => /\ add_member_refused(last_call'.room_id, last_call'.new_username,
                                   last_call'.acting_user_id)
             /\ UNCHANGED <<users, rooms, memberships, req>>
       /\ \A p \in Procs :
             /\ (req[p] = Idle /\ req'[p].op = "add_member_to_group")
                => /\ ~add_member_refused(req'[p].room_id, req'[p].new_username,
                                          req'[p].acting_user_id)
                   /\ users[req'[p].new_user_id].username = req'[p].new_username
                   /\ UNCHANGED <<users, rooms, memberships, last_call>>
             /\ (req[p].op = "add_member_to_group" /\ req'[p] = Idle)
                => /\ memberships' = Append(memberships,
                                            [room_id |-> req[p].room_id,
                                             user_id |-> req[p].new_user_id])
                   /\ UNCHANGED <<users, rooms>>
                   /\ last_call'.op = "add_member_to_group"
                   /\ last_call'.error = None]_vars

\* an add_member_to_group passed its checks and user 3 was added to a group room
C16_Witness ==
    /\ last_call.op = "add_member_to_group"
    /\ last_call.error = None
    /\ last_call.new_username = "u3"
    /\ rooms[last_call.room_id].room_type = "group"
    /\ memberships[Len(memberships)] = [room_id |-> last_call.room_id, user_id |-> 3]

\* the users a create_room request names, the caller included
distinct_members(data, current_user) ==
    {m.v : m \in Range(data.member_ids)} \cup {current_user}

(***************************************************************************)
(* C17: create_room, after de-duplicating the requested member list and    *)
(* adding the caller when absent, raises ValueError and creates no room    *)
(* and no membership when a DIRECT request does not yield exactly 2        *)
(* distinct members or a GROUP request yields fewer than 2; otherwise it   *)
(* creates one room of the requested type with exactly one membership per  *)
(* distinct member, the caller included.                                   *)
(***************************************************************************)
C17_CreateRoomValidatesMembers ==
    [][(last_call' # last_call /\ last_call'.op = "create_room") =>
          LET data == last_call'.data
              D == distinct_members(data, last_call'.user)
              new == Len(rooms) + 1
              added == (Len(memberships) + 1)..Len(memberships')
          IN IF \/ data.room_type = "direct" /\ Cardinality(D) # 2
                \/ data.room_type = "group" /\ Cardinality(D) < 2
             THEN /\ last_call'.status = 400
                  /\ UNCHANGED <<rooms, memberships>>
             ELSE /\ last_call'.status = 200
                  /\ Len(rooms') = new
                  /\ SubSeq(rooms', 1, Len(rooms)) = rooms
                  /\ rooms'[new].room_type = data.room_type
                  /\ SubSeq(memberships', 1, Len(memberships)) = memberships
                  /\ Len(memberships') = Len(memberships) + Cardinality(D)
                  /\ \A i \in added : memberships'[i].room_id = new
                  /\ {memberships'[i].user_id : i \in added} = D]_vars

(***************************************************************************)
(* C21: token kinds are not interchangeable.                               *)
(* validate_password_reset_token returns the user id for a validly signed, *)
(* unexpired token of type password_reset issued for that user, and None   *)
(* for a malformed token and for a token of any other type; the chat       *)
(* stream and the API authentication accept only tokens of type access, so *)
(* a password_reset or refresh token never authenticates a session.        *)
(***************************************************************************)
C21_TokenKindsNotInterchangeable ==
    /\ \A uid \in DOMAIN users :
          /\ validate_password_reset_token(create_password_reset_token(uid, FALSE)) = uid
          /\ validate_password_reset_token(create_password_reset_token(uid, TRUE)) = 0
    /\ \A token \in Tokens :
          /\ (~token.valid \/ token.type # "password_reset")
                => validate_password_reset_token(token) = 0
          /\ token.type # "access" =>
                /\ get_current_user(token).status = 401
                /\ \A rid \in RoomParams :
                      rejection(token, rid) \in {"invalid_credential", "wrong_kind"}
    /\ last_call.op = "validate_password_reset_token" =>
          IF last_call.token.valid /\ last_call.token.type = "password_reset"
          THEN last_call.result = last_call.token.sub
          ELSE last_call.result = 0
    /\ (last_call.op = "get_current_user" /\ last_call.status = 200)
          => last_call.token.valid /\ last_call.token.type = "access"
    /\ \A c \in Conns :
          /\ pc[c] = "recv" => payload[c].type = "access" /\ join_facts[c].token_ok
          /\ exit[c] = "wrong_kind" => close_code[c] = CLOSE_AUTH_FAILED /\ ~registered(c)

\* a valid access token was given to validate_password_reset_token and refused,
\* and a session was refused for the kind of its token
C21_Witness ==
    /\ last_call.op = "validate_password_reset_token"
    /\ last_call.token.valid
    /\ last_call.token.type = "access"
    /\ last_call.result = 0
    /\ \E c \in Conns : exit[c] = "wrong_kind"

\* the frames delivered to ws that are broadcasts of persisted messages
message_frames(ws) == {i \in DOMAIN inbox[ws] : "id" \in DOMAIN inbox[ws][i]}

(***************************************************************************)
(* C22: for any two messages m1 and m2 persisted in the same room by       *)
(* concurrently running sessions, m1 before m2 (smaller id, not-later      *)
(* created_at), every connection that receives both broadcast frames       *)
(* receives m1's frame before m2's.                                        *)
(***************************************************************************)
C22_DeliveryFollowsPersistence ==
    \A ws \in Conns :
        \A i \in message_frames(ws), j \in message_frames(ws) :
            /\ inbox[ws][i].room_id = inbox[ws][j].room_id
            /\ inbox[ws][i].id < inbox[ws][j].id
            => i < j

\* the subscriber set of room rid in registry ac (no entry: the empty set)
subscribers(ac, rid) == IF rid \in DOMAIN ac THEN ac[rid] ELSE {}

\* a session's manager.connect or manager.disconnect call returns in this step
RegistryCallBy(d) == calls'[d] # calls[d]

DeliversTo(c, ws) ==
    /\ pc[c] = "sending"
    /\ Len(inbox'[ws]) = Len(inbox[ws]) + 1
    /\ inbox'[ws][Len(inbox'[ws])] = bcast[c].message

(***************************************************************************)
(* C24: once disconnect(R, c) has returned for a connection c (and c was   *)
(* not connected to R again), no broadcast on R delivers a payload to c,   *)
(* a broadcast that was already in flight, suspended in a send to another  *)
(* subscriber, when disconnect was called included.                        *)
(***************************************************************************)
C24_NoDeliveryAfterDisconnect ==
    [][\A rid \in MgrRooms, ws \in Conns, c \in Conns :
          (/\ last_op[<<rid, ws>>] = "disconnect"
           /\ bcast[c].room = rid)
          => ~DeliversTo(c, ws)]_vars

(***************************************************************************)
(* C25: if delivery to connection c fails during broadcast(R, payload),    *)
(* then when that broadcast returns c is not in R's current subscriber     *)
(* set, in every interleaving of connect and disconnect calls on R at the  *)
(* broadcast's suspension points, those in which R's set is emptied,       *)
(* deleted and created again while the broadcast is in flight included.    *)
(***************************************************************************)
C25_FailedConnectionPruned ==
    [][\A c \in Conns : BroadcastReturns(c) =>
          \A ws \in Failed(c) :
              ws \notin subscribers(active_connections', bcast[c].room)]_vars

\* session c's db.commit() inside save_message raises in this step
CommitRaises(c) == pc[c] = "commit" /\ pc'[c] = "closed"

\* session c's error frame for a blocked message is sent in this step
BlockAnswered(c) == pc[c] = "send_error" /\ pc'[c] = "recv"

(***************************************************************************)
(* C26: if persisting the message fails (the store write raises) inside    *)
(* save_message during a joined session, the message is not broadcast to   *)
(* any connection, the sender is not sent a moderation-block error frame,  *)
(* and the failure reaches the sender as a generic failure (the socket is  *)
(* closed) that differs from the outcome of a moderation block (an error   *)
(* frame on a socket that stays open).  No frame of a message that is no   *)
(* row of the store is ever delivered.                                     *)
(***************************************************************************)
C26_PersistFailureSurfaced ==
    [][/\ \A c \in Conns :
             /\ CommitRaises(c) =>
                   /\ messages' = messages
                   /\ inbox' = inbox
                   /\ exit'[c] = "store_fault"
                   /\ close_code'[c] = CLOSE_DEFAULT
                   /\ close_code'[c] # 0
             /\ BlockAnswered(c) =>
                   /\ close_code'[c] = 0
                   /\ inbox'[c] = Append(inbox[c], error_response(block_reason[c]))
       /\ \A ws \in Conns :
             \A i \in DOMAIN inbox'[ws] :
                 "id" \in DOMAIN inbox'[ws][i] =>
                    /\ inbox'[ws][i].id \in DOMAIN messages'
                    /\ inbox'[ws][i] = broadcast_frame(messages'[inbox'[ws][i].id])]_vars

\* a session was closed because its commit raised: no row, no frame anywhere
C26_Witness ==
    \E c \in Conns :
        /\ pc[c] = "closed"
        /\ exit[c] = "store_fault"
        /\ close_code[c] = CLOSE_DEFAULT
        /\ messages = <<>>
        /\ \A ws \in Conns : inbox[ws] = <<>>

\* session c's message becomes a row of the store in this step
PersistedBy(c) == pc[c] = "commit" /\ pc'[c] = "refresh"

(***************************************************************************)
(* C27: every message persisted through a WebSocket session has a sender   *)
(* who is an active user at the moment of persistence: once a user has     *)
(* been deactivated, no further message of that user is persisted or       *)
(* broadcast through a session the user joined before the deactivation.    *)
(***************************************************************************)
C27_SenderActiveWhenPersisted ==
    [][\A c \in Conns :
          /\ PersistedBy(c) => users[user_id[c]].is_active
          /\ (pc[c] = "refresh" /\ pc'[c] \in {"sending", "recv"})
                => users[user_id[c]].is_active]_vars

\* the rooms under which connection ws is registered
rooms_of(ws) == {r \in DOMAIN active_connections : ws \in active_connections[r]}

(***************************************************************************)
(* C28: in every reachable state of the system, where connections are      *)
(* registered by websocket_chat sessions, each connection appears in the   *)
(* subscriber set of at most one room, the room its session joined.        *)
(***************************************************************************)
C28_OneRoomPerConnection ==
    \A ws \in Conns :
        /\ Cardinality(rooms_of(ws)) <= 1
        /\ rooms_of(ws) \subseteq {room_id[ws]}

\* two sessions are registered, each under a room of its own
C28_Witness ==
    \E c, d \in Conns :
        /\ room_id[c] # room_id[d]
        /\ rooms_of(c) = {room_id[c]}
        /\ rooms_of(d) = {room_id[d]}

\* C29: a frame whose content is missing or empty is ignored with no effect:
\* the step that reads it creates no Message row, does not hand it to
\* save_message (so the gate is not called), sends no frame to any connection,
\* leaves the registry unchanged and leaves the session at the receive of its
\* loop; and no such frame is ever taken for a message.
C29_EmptyFrameIgnored ==
    [][\A c \in Conns :
          /\ (gate[c] # "not_called" /\ gate'[c] = "not_called")
                => /\ pc[c] = "recv" /\ pc' = pc
                   /\ messages' = messages /\ row_gate' = row_gate
                   /\ nframes' = nframes
                   /\ inbox' = inbox /\ bcast' = bcast /\ close_code' = close_code
                   /\ active_connections' = active_connections
                   /\ calls' = calls /\ exit' = exit
                   /\ message_in' = message_in /\ block_reason' = block_reason
          /\ (message_in'[c] # NoObject => message_in'[c].content \notin {None, ""})
          /\ \A i \in 1..Len(messages') : messages'[i].content \notin {None, ""}
      ]_vars

\* a Joined session has read a frame with no content while a subscriber of
\* its room is connected and a message is already stored
C29_Witness ==
    \E c, d \in Conns :
        /\ c # d
        /\ gate[c] = "not_called" /\ pc[c] = "recv"
        /\ subscribers(active_connections, room_id[c]) = {c, d}
        /\ Len(messages) > 0

\* the subscriber sets of the rooms other than rid are what they were
OtherRoomsUnchanged(rid) ==
    \A r2 \in RegistryRooms \ {rid} :
        subscribers(active_connections', r2) = subscribers(active_connections, r2)

(***************************************************************************)
(* C30: rooms are isolated in the registry.  A connect or disconnect on R  *)
(* leaves every other room's subscriber set unchanged and delivers         *)
(* nothing; broadcast(R, payload) sends only to connections it found in    *)
(* R's set when it was called, so never to one that was registered only    *)
(* under other rooms, and its sends and its pruning add nothing to any     *)
(* set and remove nothing from the set of a room other than R.             *)
(***************************************************************************)
C30_RoomsIsolated ==
    [][/\ \A rid \in MgrRooms, ws \in Conns :
             last_op'[<<rid, ws>>] # last_op[<<rid, ws>>]
                => OtherRoomsUnchanged(rid) /\ inbox' = inbox
       /\ \A c \in Conns :
             (pc[c] # "sending" /\ pc'[c] = "sending")
                => /\ bcast'[c].snap \subseteq
                         subscribers(active_connections, bcast'[c].room)
                   /\ active_connections' = active_connections
                   /\ inbox' = inbox
       /\ \A ws \in Conns :
             inbox'[ws] # inbox[ws]
                => \E c \in Conns : DeliversTo(c, ws) /\ ws \in bcast[c].snap
       /\ \A c \in Conns :
             (pc[c] = "sending" /\ pc'[c] # "sending")
                => /\ OtherRoomsUnchanged(bcast[c].room)
                   /\ subscribers(active_connections', bcast[c].room)
                         \subseteq subscribers(active_connections, bcast[c].room)
      ]_vars

\* a broadcast on room 1 has failed for a connection that is also registered
\* under room 2, where another connection is registered only, and has
\* returned: room 2's set is whole and its other subscriber received nothing
C30_Witness ==
    \E c, ws, w2 \in Conns :
        /\ ws # w2
        /\ pc[c] # "sending"
        /\ nframes > 0
        /\ last_op[<<1, ws>>] = "connect" /\ last_op[<<2, ws>>] = "connect"
        /\ last_op[<<2, w2>>] = "connect" /\ last_op[<<1, w2>>] = "none"
        /\ subscribers(active_connections, 1) = {}
        /\ subscribers(active_connections, 2) = {ws, w2}
        /\ inbox[ws] = <<>> /\ inbox[w2] = <<>>

====
